---- MODULE Spec2Model ----
(***************************************************************************)
(* Model of the regionmask point-in-polygon rasterization engine: the      *)
(* mask pipeline (longitude wrap, backend selection, rasterize / shapely   *)
(* membership test with the offset, treatment of the points at the seam    *)
(* and at -90N, composition of the 2D and 3D mask).                        *)
(*                                                                         *)
(* Coordinates are exact integers.  One unit stands for the smallest       *)
(* length the documentation names (the northward shift of the points at    *)
(* -90N); the offset and the degree are multiples of it, so that           *)
(* unit < offset < any distance between two grid points or vertices.       *)
(***************************************************************************)
EXTENDS Integers, Sequences, FiniteSets

\* ------------------------------------------------------------------ units

\* shift of the points at -90N ("1 * 10 ** -10"): the unit of length; also the
\* offset subtracted from lat
Nudge == 1

\* the tiny offset ("10 ** -9"), in units: subtracted from lon
Offset == 10

\* half a degree and a degree, in units (a scale: far larger than Offset)
HalfDeg == 5 * Offset

Deg == 2 * HalfDeg

\* number of points of a regional coordinate axis
MaxN == 13

\* number of cells of a coarse axis a fractional mask is asked for
FracN == 3

\* mask_3D_frac_approx samples each grid cell NSample times per dimension
NSample == 10

\* the no-region value of a 2D mask (NaN)
NaN == -1

\* ----------------------------------------------------------------- rings

\* a point or vertex is <<x, y>> = <<lon, lat>> in units
Pt(x, y) == <<x, y>>

\* the closed ring of the rectangle [x0, x1] x [y0, y1], as np.array outlines
\* of the documentation list them: upper right, lower right, lower left,
\* upper left
Rect(x0, x1, y0, y1) == << Pt(x1, y1), Pt(x1, y0), Pt(x0, y0), Pt(x0, y1) >>

\* the edges <<a, b>> of a ring (closed implicitly)
Edges(ring) == { << ring[i], ring[(i % Len(ring)) + 1] >> : i \in 1..Len(ring) }

\* a polygon: one exterior ring and a sequence of interior rings (holes)
Polygon(shell, holes) == [ext |-> shell, holes |-> holes]

Rings(poly) == {poly.ext} \cup { poly.holes[k] : k \in 1..Len(poly.holes) }

Min2(a, b) == IF a < b THEN a ELSE b

Max2(a, b) == IF a < b THEN b ELSE a

SetMin(S) == CHOOSE m \in S : \A n \in S : m <= n

SetMax(S) == CHOOSE m \in S : \A n \in S : n <= m

\* lower and upper end point of a non-horizontal edge
Lo(e) == IF e[1][2] < e[2][2] THEN e[1] ELSE e[2]

Hi(e) == IF e[1][2] < e[2][2] THEN e[2] ELSE e[1]

\* p lies on the closed segment e
OnSegment(p, e) ==
    /\ (e[2][1] - e[1][1]) * (p[2] - e[1][2]) = (e[2][2] - e[1][2]) * (p[1] - e[1][1])
    /\ Min2(e[1][1], e[2][1]) <= p[1] /\ p[1] <= Max2(e[1][1], e[2][1])
    /\ Min2(e[1][2], e[2][2]) <= p[2] /\ p[2] <= Max2(e[1][2], e[2][2])

OnRing(p, ring) == \E e \in Edges(ring) : OnSegment(p, e)

\* the bounding box of a ring, <<xmin, ymin, xmax, ymax>>
Bounds(ring) ==
    LET xs == { ring[i][1] : i \in 1..Len(ring) }
        ys == { ring[i][2] : i \in 1..Len(ring) }
    IN  << SetMin(xs), SetMin(ys), SetMax(xs), SetMax(ys) >>

\* --------------------------------------------- general path (shapely)

\* e crosses the ray from p to the right
CrossesRay(p, e) ==
    /\ e[1][2] # e[2][2]
    /\ Lo(e)[2] <= p[2] /\ p[2] < Hi(e)[2]
    /\ (p[1] - Lo(e)[1]) * (Hi(e)[2] - Lo(e)[2]) < (p[2] - Lo(e)[2]) * (Hi(e)[1] - Lo(e)[1])

OddCrossings(p, ring) == Cardinality({ e \in Edges(ring) : CrossesRay(p, e) }) % 2 = 1

\* p is in the interior of the area the ring encloses
InsideRing(p, ring) == OddCrossings(p, ring) /\ ~OnRing(p, ring)

\* p is in the closed area the ring encloses
CoveredByRing(p, ring) == OddCrossings(p, ring) \/ OnRing(p, ring)

\* the bounding-box tree keeps the regions whose bounding box holds the point
BoxQuery(p, poly) ==
    LET b == Bounds(poly.ext)
    IN  b[1] <= p[1] /\ p[1] <= b[3] /\ b[2] <= p[2] /\ p[2] <= b[4]

ContainsShell(poly, p) == BoxQuery(p, poly) /\ InsideRing(p, poly.ext)

\* shapely's contains: inside the exterior and outside every hole; a point on
\* a ring is on the polygon's boundary and is not contained
Contains(poly, p) ==
    /\ BoxQuery(p, poly)
    /\ InsideRing(p, poly.ext)
    /\ \A k \in 1..Len(poly.holes) : ~CoveredByRing(p, poly.holes[k])

ShapelyPointPlain(x, y) == Pt(x, y)

\* the same offset for lon and lat: a point on a 45 degree edge stays on it
ShapelyPointEqualOffset(x, y) == Pt(x - Offset, y - Offset)

\* the point the shapely backend tests for the grid point (x, y): a tiny
\* offset is subtracted from lon and from lat, a smaller one from lat, so
\* that a point on a 45 degree edge leaves the edge
ShapelyPoint(x, y) == Pt(x - Offset, y - Nudge)

\* ------------------------------------------------ fast path (rasterize)

\* scan-line rule of the rasterizer: the scan line at p's latitude meets e
\* (its upper end inclusive) at or to the right of p
BurnsRight(p, e) ==
    /\ e[1][2] # e[2][2]
    /\ Lo(e)[2] < p[2] /\ p[2] <= Hi(e)[2]
    /\ (p[1] - Lo(e)[1]) * (Hi(e)[2] - Lo(e)[2]) <= (p[2] - Lo(e)[2]) * (Hi(e)[1] - Lo(e)[1])

BurntShell(poly, p) ==
    Cardinality({ e \in Edges(poly.ext) : BurnsRight(p, e) }) % 2 = 1

\* a cell is burnt when its centre lies between an odd and an even crossing
\* of the scan line with the rings of the polygon (exterior and holes alike)
Burnt(poly, p) ==
    LET crossed(ring) == Cardinality({ e \in Edges(ring) : BurnsRight(p, e) })
        RECURSIVE total(_)
        total(k) == IF k = 0 THEN crossed(poly.ext)
                    ELSE crossed(poly.holes[k]) + total(k - 1)
    IN  total(Len(poly.holes)) % 2 = 1

RasterPointPlus(x, y) == Pt(x + Offset, y + Nudge)

\* the cell centre the rasterizer uses for the grid point (x, y): the same
\* offsets as the shapely backend
RasterPoint(x, y) == Pt(x - Offset, y - Nudge)

\* ------------------------------------------------------------- the grid

Index(lonAx, latAx) == (1..Len(lonAx)) \X (1..Len(latAx))

\* one boolean layer per region, as the set of the grid indices <<i, j>>
\* (i into lon, j into lat) that are members
MaskRasterize(polys, lonAx, latAx) ==
    [ r \in 1..Len(polys) |->
        { ij \in Index(lonAx, latAx) :
            Burnt(polys[r], RasterPoint(lonAx[ij[1]], latAx[ij[2]])) } ]

MaskShapely(polys, lonAx, latAx) ==
    [ r \in 1..Len(polys) |->
        { ij \in Index(lonAx, latAx) :
            Contains(polys[r], ShapelyPoint(lonAx[ij[1]], latAx[ij[2]])) } ]

\* successive differences of an axis are all equal (np.allclose(diff, diff[0]))
EquallySpaced(ax) ==
    /\ Len(ax) >= 2
    /\ \A i \in 1..(Len(ax) - 1) : ax[i + 1] - ax[i] = ax[2] - ax[1]

\* ----------------------------------------------------------- grid splitter

\* the places where the spacing of the axis differs from its first spacing
SpacingBreaks(ax) ==
    { i \in 1..(Len(ax) - 1) : ax[i + 1] - ax[i] # ax[2] - ax[1] }

\* one jump anywhere, the last step included
EquallySpacedOnSplitLonAnyJump(ax) ==
    /\ Len(ax) >= 3
    /\ Cardinality(SpacingBreaks(ax)) = 1

\* the axis is equally spaced apart from one jump, and the jump is not the
\* last step (a jump at the first step makes every other step a break)
EquallySpacedOnSplitLon(ax) ==
    /\ Len(ax) >= 3
    /\ Cardinality(SpacingBreaks(ax)) = 1
    /\ (Len(ax) - 1) \notin SpacingBreaks(ax)

\* the number of elements before the jump
FindSplitpoint(ax) == CHOOSE i \in SpacingBreaks(ax) : TRUE

\* the part after the jump in front of the part before it
FlipLon(ax, sp) == SubSeq(ax, sp + 1, Len(ax)) \o SubSeq(ax, 1, sp)

\* the column of the flipped axis that holds element i of the caller's axis,
\* wrongly taken at the split point instead of at n - split point
FlippedColumnAtSplit(i, sp, n) ==
    IF i > n - sp THEN i - (n - sp) ELSE i + sp

\* the column of the flipped axis that holds element i of the caller's axis
FlippedColumn(i, sp, n) ==
    IF i > sp THEN i - sp ELSE i + (n - sp)

\* rasterize on the flipped (equally spaced) axis and flip the mask back
MaskRasterizeFlip(polys, lonAx, latAx) ==
    LET sp == FindSplitpoint(lonAx)
        flipped == MaskRasterize(polys, FlipLon(lonAx, sp), latAx)
    IN  [ r \in 1..Len(polys) |->
            { ij \in Index(lonAx, latAx) :
                << FlippedColumn(ij[1], sp, Len(lonAx)), ij[2] >> \in flipped[r] } ]

\* rasterize the two equally spaced parts on their own and join the masks
MaskRasterizeSplit(polys, lonAx, latAx) ==
    LET sp == FindSplitpoint(lonAx)
        l == MaskRasterize(polys, SubSeq(lonAx, 1, sp), latAx)
        r == MaskRasterize(polys, SubSeq(lonAx, sp + 1, Len(lonAx)), latAx)
    IN  [ k \in 1..Len(polys) |->
            l[k] \cup { << ij[1] + sp, ij[2] >> : ij \in r[k] } ]

DetermineMethodLonOnly(lonAx, latAx) ==
    IF EquallySpaced(lonAx) THEN "rasterize" ELSE "shapely"

\* the backend method="auto" selects
DetermineMethod(lonAx, latAx) ==
    IF EquallySpaced(lonAx) /\ EquallySpaced(latAx) THEN "rasterize"
    ELSE IF EquallySpacedOnSplitLon(lonAx) /\ EquallySpaced(latAx)
    THEN IF EquallySpaced(FlipLon(lonAx, FindSplitpoint(lonAx)))
         THEN "rasterize_flip"
         ELSE "rasterize_split"
    ELSE "shapely"

\* ------------------------------------------------- coordinate normalizer

\* the regions lie in [-180, 180] (else in [0, 360]): from the regions alone
IsLon180(polys) ==
    SetMax({ Bounds(polys[r].ext)[3] : r \in 1..Len(polys) }) <= 180 * Deg

WrapAngleNever(lonAx, is180) == lonAx

\* wrap only when the extent of the longitudes lies outside the range
WrapAngleByLonExtent(lonAx, is180) ==
    LET lons == { lonAx[i] : i \in 1..Len(lonAx) }
    IN  IF is180 /\ SetMax(lons) > 180 * Deg
        THEN [ i \in 1..Len(lonAx) |->
                 ((lonAx[i] + 180 * Deg) % (360 * Deg)) - 180 * Deg ]
        ELSE IF ~is180 /\ SetMin(lons) < 0
        THEN [ i \in 1..Len(lonAx) |-> lonAx[i] % (360 * Deg) ]
        ELSE lonAx

\* wrap the longitudes to [-180, 180) or to [0, 360)
WrapAngle(lonAx, is180) ==
    [ i \in 1..Len(lonAx) |->
        IF is180 THEN ((lonAx[i] + 180 * Deg) % (360 * Deg)) - 180 * Deg
        ELSE lonAx[i] % (360 * Deg) ]

\* the longitude of the seam of an axis: -180E, or 0E for an axis in [0, 360)
Seam(lonAx) ==
    IF SetMin({ lonAx[i] : i \in 1..Len(lonAx) }) < 0 THEN -180 * Deg ELSE 0

IsEdgePoint(x, y, seam) == x = seam \/ y = -90 * Deg

EdgeTestPointSame(x, y, seam) == Pt(x - Offset, y - Nudge)

EdgeTestPointAllNorth(x, y, seam) ==
    Pt((IF x = seam THEN x + 360 * Deg ELSE x) - Offset, y + Nudge)

\* the point tested for a grid point at the seam or at -90N: the seam is
\* mapped to 180E (360E), -90N is shifted northwards
EdgeTestPoint(x, y, seam) ==
    Pt((IF x = seam THEN x + 360 * Deg ELSE x) - Offset,
       IF y = -90 * Deg THEN y + Nudge ELSE y - Nudge)

TreatEdgepointsAlways(wrap) == TRUE

\* the points at the seam and at -90N are treated unless wrap_lon is False
TreatEdgepoints(wrap) == wrap # "false"

MaskEdgepointsShapely(mask, polys, lonAx, latAx) ==
    [ r \in 1..Len(polys) |->
        mask[r] \cup
        { ij \in Index(lonAx, latAx) :
            /\ IsEdgePoint(lonAx[ij[1]], latAx[ij[2]], Seam(lonAx))
            /\ Contains(polys[r],
                        EdgeTestPoint(lonAx[ij[1]], latAx[ij[2]], Seam(lonAx))) } ]

\* ------------------------------------------------------ region compositor

\* the region indices in ascending order of their numbers
RECURSIVE Ascending(_, _)
Ascending(numbers, todo) ==
    IF todo = {} THEN << >>
    ELSE LET r == CHOOSE a \in todo : \A b \in todo : numbers[a] <= numbers[b]
         IN  << r >> \o Ascending(numbers, todo \ {r})

RECURSIVE Burn2DKeepFirst(_, _, _, _)
Burn2DKeepFirst(mask, numbers, order, idx) ==
    IF order = << >> THEN [ ij \in idx |-> NaN ]
    ELSE LET before == Burn2DKeepFirst(mask, numbers, SubSeq(order, 1, Len(order) - 1), idx)
             r == order[Len(order)]
         IN  [ ij \in idx |-> IF before[ij] = NaN /\ ij \in mask[r]
                              THEN numbers[r] ELSE before[ij] ]

RECURSIVE Burn2DZeroFill(_, _, _, _)
Burn2DZeroFill(mask, numbers, order, idx) ==
    IF order = << >> THEN [ ij \in idx |-> 0 ]
    ELSE LET before == Burn2DZeroFill(mask, numbers, SubSeq(order, 1, Len(order) - 1), idx)
             r == order[Len(order)]
         IN  [ ij \in idx |-> IF ij \in mask[r] THEN numbers[r] ELSE before[ij] ]

\* the 2D mask: regions are burnt in ascending order of their numbers, a later
\* region overwrites an earlier one
RECURSIVE Burn2D(_, _, _, _)
Burn2D(mask, numbers, order, idx) ==
    IF order = << >> THEN [ ij \in idx |-> NaN ]
    ELSE LET before == Burn2D(mask, numbers, SubSeq(order, 1, Len(order) - 1), idx)
             r == order[Len(order)]
         IN  [ ij \in idx |-> IF ij \in mask[r] THEN numbers[r] ELSE before[ij] ]

Compose2D(mask, numbers, idx) ==
    Burn2D(mask, numbers, Ascending(numbers, DOMAIN numbers), idx)

OverlappingNever(mask, idx) == FALSE

\* some grid point lies in more than one region
Overlapping(mask, idx) ==
    \E ij \in idx : \E r, q \in DOMAIN mask : r # q /\ ij \in mask[r] /\ ij \in mask[q]

Check2DFoundOnly(ovl, mask, idx) ==
    IF Overlapping(mask, idx) /\ ovl # "false" THEN "errorUse3D" ELSE "ok"

\* a 2D mask cannot hold overlapping regions: refused when overlap is True, and
\* when overlap is unset and the regions are found to overlap
Check2D(ovl, mask, idx) ==
    IF ovl = "true" THEN "errorUse3D"
    ELSE IF ovl = "none" /\ Overlapping(mask, idx) THEN "errorUse3D"
    ELSE "ok"

\* the layers of a 2D mask: layer r holds the points the 2D mask gives to region r
Mask2DTo3D(mask, numbers, idx) ==
    LET m2 == Compose2D(mask, numbers, idx)
    IN  [ r \in DOMAIN numbers |-> { ij \in idx : m2[ij] = numbers[r] } ]

Layers3DSeparate(mask, numbers, idx, ovl) == mask

Layers3DFlat(mask, numbers, idx, ovl) == Mask2DTo3D(mask, numbers, idx)

\* the layers of a 3D mask: with overlap=False the regions are assumed not to
\* overlap and a grid point goes to one region only, else each region is
\* masked on its own
Layers3D(mask, numbers, idx, ovl) ==
    IF ovl = "false" THEN Mask2DTo3D(mask, numbers, idx) ELSE mask

Stack3DKeepAll(layers, numbers, drp) ==
    [ r \in DOMAIN numbers |-> [region |-> numbers[r], layer |-> layers[r]] ]

\* the 3D mask: the layers in the order of the collection, each with the number
\* of its region as coordinate; drop removes the layers without a grid point
Stack3D(layers, numbers, drp) ==
    LET all == [ r \in DOMAIN numbers |-> [region |-> numbers[r], layer |-> layers[r]] ]
        NotEmpty(l) == l.layer # {}
    IN  IF drp THEN SelectSeq(all, NotEmpty) ELSE all

\* the sum of the numbers of the layers of a 3D mask that hold the grid point
RECURSIVE SumRegions(_, _, _)
SumRegions(m3, k, ij) ==
    IF k = 0 THEN 0
    ELSE SumRegions(m3, k - 1, ij) + (IF ij \in m3[k].layer THEN m3[k].region ELSE 0)

\* the sum alone: a grid point in no region gets 0
Flatten3DMaskZeroFill(m3, idx) == [ ij \in idx |-> SumRegions(m3, Len(m3), ij) ]

\* flatten_3D_mask: (mask_3D * mask_3D.region).sum("region"), kept where
\* any layer is True
Flatten3DMask(m3, idx) ==
    [ ij \in idx |->
        IF \E k \in 1..Len(m3) : ij \in m3[k].layer
        THEN SumRegions(m3, Len(m3), ij)
        ELSE NaN ]

\* ---------------------------------------------------------- the mask call

\* the layers of one mask call with the given backend: wrap, rasterize, treat
\* the points at the seam and at -90N
MaskLayers(polys, lonAx, latAx, wrap, meth) ==
    LET lonW == IF wrap = "false" THEN lonAx ELSE WrapAngle(lonAx, IsLon180(polys))
        raw == CASE meth = "rasterize" -> MaskRasterize(polys, lonW, latAx)
                 [] meth = "rasterize_flip" -> MaskRasterizeFlip(polys, lonW, latAx)
                 [] meth = "rasterize_split" -> MaskRasterizeSplit(polys, lonW, latAx)
                 [] OTHER -> MaskShapely(polys, lonW, latAx)
    IN  IF TreatEdgepoints(wrap)
        THEN MaskEdgepointsShapely(raw, polys, lonW, latAx)
        ELSE raw

\* ------------------------------------------------ fractional overlap

SampleCoordsLeft(ax, n) ==
    LET d == ax[2] - ax[1]
    IN  [ k \in 1..(Len(ax) * n) |-> ax[1] - d \div 2 + (k - 1) * (d \div n) ]

\* the centres of the n sub-cells of every cell of an equally spaced axis
SampleCoords(ax, n) ==
    LET d == ax[2] - ax[1]
        left == ax[1] - d \div 2 + d \div (2 * n)
    IN  [ k \in 1..(Len(ax) * n) |-> left + (k - 1) * (d \div n) ]

\* the average of a layer of the fine grid over the n x n sub-points of each
\* cell, as the number of sub-points that are members (the value times n * n)
Coarsen(layer, lonAx, latAx, n) ==
    [ ij \in Index(lonAx, latAx) |->
        Cardinality({ s \in layer : /\ (s[1] - 1) \div n + 1 = ij[1]
                                    /\ (s[2] - 1) \div n + 1 = ij[2] }) ]

\* the fractional mask: the 3D mask of the sub-sampled grid, averaged per cell
MaskFracApprox(polys, numbers, lonAx, latAx, wrap, ovl, drp) ==
    LET lonS == SampleCoords(lonAx, NSample)
        latS == SampleCoords(latAx, NSample)
        fine == Layers3D(MaskLayers(polys, lonS, latS, wrap, "rasterize"),
                         numbers, Index(lonS, latS), ovl)
        all == [ r \in DOMAIN numbers |->
                   [region |-> numbers[r],
                    layer |-> Coarsen(fine[r], lonAx, latAx, NSample)] ]
        NotEmpty(l) == \E ij \in Index(lonAx, latAx) : l.layer[ij] > 0
    IN  IF drp THEN SelectSeq(all, NotEmpty) ELSE all

\* --------------------------------------------------------------- inputs

\* regionmask.Regions(outlines): the numbers default to 0, 1, ...
Regions(name, polys) ==
    [name |-> name, polys |-> polys, numbers |-> [ r \in 1..Len(polys) |-> r - 1 ]]

RegionsUnsorted(name, polys, numbers) ==
    [name |-> name, polys |-> polys, numbers |-> numbers]

\* regionmask.Regions(outlines, numbers): sorted by the numbers of the regions
RegionsNumbered(name, polys, numbers) ==
    LET order == Ascending(numbers, DOMAIN numbers)
    IN  [name |-> name,
         polys |-> [ k \in DOMAIN order |-> polys[order[k]] ],
         numbers |-> [ k \in DOMAIN order |-> numbers[order[k]] ]]

\* regions[[n1, n2, ...]]: a collection of the regions with these numbers
Select(regs, name, nums) ==
    LET At(n) == CHOOSE r \in DOMAIN regs.numbers : regs.numbers[r] = n
    IN  RegionsNumbered(name, [ k \in DOMAIN nums |-> regs.polys[At(nums[k])] ], nums)

outline == Rect(-100 * Deg, -80 * Deg, 28 * Deg, 44 * Deg)

interior == Rect(-94 * Deg, -86 * Deg, 32 * Deg, 40 * Deg)

region == Regions("region", << Polygon(outline, << >>) >>)

region_with_hole == Regions("region_with_hole", << Polygon(outline, << interior >>) >>)

\* an outline with two holes
region_two_holes ==
    Regions("region_two_holes",
            << Polygon(outline, << Rect(-98 * Deg, -94 * Deg, 30 * Deg, 34 * Deg),
                                   Rect(-90 * Deg, -84 * Deg, 36 * Deg, 42 * Deg) >>) >>)

\* two regions with a common vertical border at -90E, as SREX regions have
region_adjacent ==
    Regions("region_adjacent",
            << Polygon(Rect(-100 * Deg, -90 * Deg, 28 * Deg, 44 * Deg), << >>),
               Polygon(Rect(-90 * Deg, -80 * Deg, 28 * Deg, 44 * Deg), << >>) >>)

\* two regions with a common horizontal border at 36N
region_stacked ==
    Regions("region_stacked",
            << Polygon(Rect(-100 * Deg, -80 * Deg, 28 * Deg, 36 * Deg), << >>),
               Polygon(Rect(-100 * Deg, -80 * Deg, 36 * Deg, 44 * Deg), << >>) >>)

\* two regions with a common border at 45 degrees, rising from (-100E, 30N)
\* to (-90E, 40N): the lower right and the upper left half of a square
region_diagonal ==
    Regions("region_diagonal",
            << Polygon(<< Pt(-100 * Deg, 30 * Deg), Pt(-90 * Deg, 30 * Deg),
                          Pt(-90 * Deg, 40 * Deg) >>, << >>),
               Polygon(<< Pt(-100 * Deg, 30 * Deg), Pt(-90 * Deg, 40 * Deg),
                          Pt(-100 * Deg, 40 * Deg) >>, << >>) >>)

\* the same with the border falling from (-100E, 40N) to (-90E, 30N): the
\* lower left and the upper right half
region_antidiagonal ==
    Regions("region_antidiagonal",
            << Polygon(<< Pt(-100 * Deg, 30 * Deg), Pt(-90 * Deg, 30 * Deg),
                          Pt(-100 * Deg, 40 * Deg) >>, << >>),
               Polygon(<< Pt(-90 * Deg, 30 * Deg), Pt(-90 * Deg, 40 * Deg),
                          Pt(-100 * Deg, 40 * Deg) >>, << >>) >>)

\* lon_max = 360.0 - 1e-10
outline_global == Rect(0, 360 * Deg - Nudge, -90 * Deg, 90 * Deg)

region_global == Regions("region_global", << Polygon(outline_global, << >>) >>)

\* the whole globe in [-180, 180]
region_global_180 ==
    Regions("region_global_180",
            << Polygon(Rect(-180 * Deg, 180 * Deg, -90 * Deg, 90 * Deg), << >>) >>)

outline_global1 == Rect(-180 * Deg, 0, -60 * Deg, 60 * Deg)

outline_global2 == Rect(0, 180 * Deg, -60 * Deg, 60 * Deg)

region_global_2 ==
    Regions("region_global_2",
            << Polygon(outline_global1, << >>), Polygon(outline_global2, << >>) >>)

\* the same two regions in [0, 360]
region_global_2_360 ==
    Regions("region_global_2_360",
            << Polygon(Rect(0, 180 * Deg, -60 * Deg, 60 * Deg), << >>),
               Polygon(Rect(180 * Deg, 360 * Deg, -60 * Deg, 60 * Deg), << >>) >>)

\* a southern and a northern hemisphere, down to -90N
region_global_ns ==
    Regions("region_global_ns",
            << Polygon(Rect(-180 * Deg, 180 * Deg, -90 * Deg, 0), << >>),
               Polygon(Rect(-180 * Deg, 180 * Deg, 0, 90 * Deg), << >>) >>)

\* the four quadrants of the globe: SW (0), SE (1), NW (2), NE (3)
region_global_4 ==
    Regions("region_global_4",
            << Polygon(Rect(-180 * Deg, 0, -90 * Deg, 0), << >>),
               Polygon(Rect(0, 180 * Deg, -90 * Deg, 0), << >>),
               Polygon(Rect(-180 * Deg, 0, 0, 90 * Deg), << >>),
               Polygon(Rect(0, 180 * Deg, 0, 90 * Deg), << >>) >>)

\* the vertical and the horizontal region of the overlap example
coords_v == Rect(-100 * Deg, -90 * Deg, 28 * Deg, 50 * Deg)

coords_h == Rect(-100 * Deg, -80 * Deg, 40 * Deg, 50 * Deg)

region_vh ==
    Regions("region_vh", << Polygon(coords_v, << >>), Polygon(coords_h, << >>) >>)

\* the same regions, constructed with unsorted numbers
region_hv ==
    RegionsNumbered("region_hv",
                    << Polygon(coords_h, << >>), Polygon(coords_v, << >>) >>,
                    << 2, 1 >>)

\* a region (3) that lies within a region with a higher number (5)
region_nested ==
    RegionsNumbered("region_nested",
                    << Polygon(outline, << >>), Polygon(interior, << >>) >>,
                    << 5, 3 >>)

\* a third region east of the regional grids
region_three ==
    Regions("region_three",
            << Polygon(coords_v, << >>), Polygon(coords_h, << >>),
               Polygon(Rect(-60 * Deg, -50 * Deg, 28 * Deg, 44 * Deg), << >>) >>)

region_selected == Select(region_three, "region_selected", << 2, 0 >>)

\* the regions of the accuracy example: a triangle covering half of the grid
\* cell [0, 10] x [0, 10], and boxes covering 75 % and 32 % of it
region1 ==
    Regions("region1",
            << Polygon(<< Pt(0, 10 * Deg), Pt(10 * Deg, 0), Pt(10 * Deg, 0),
                          Pt(10 * Deg, 10 * Deg) >>, << >>) >>)

region2 ==
    Regions("region2", << Polygon(Rect(0, 10 * Deg, 0, 7 * Deg + HalfDeg), << >>) >>)

region3 ==
    Regions("region3", << Polygon(Rect(0, 10 * Deg, 0, 3 * Deg + 2 * Offset), << >>) >>)

\* a box that ends within the grid cell in both directions: box(0, 0, 5.52, 5.52)
region_corner ==
    Regions("region_corner",
            << Polygon(Rect(0, 5 * Deg + HalfDeg + 2, 0, 5 * Deg + HalfDeg + 2), << >>) >>)

OverlapCollections ==
    { region_vh, region_hv, region_nested, region_three, region_selected,
      region_adjacent }

Collections ==
    { region, region_with_hole, region_two_holes, region_adjacent, region_stacked,
      region_global, region_global_180, region_global_2, region_global_2_360,
      region_global_ns, region_global_4 }

\* np.arange-like axis of n points
Axis(start, step, n) == [ i \in 1..n |-> start + (i - 1) * step ]

LonAxes ==
    { Axis(-102 * Deg, 2 * Deg, MaxN), Axis(-102 * Deg, Deg, MaxN),
      Axis(-92 * Deg, Deg, MaxN), Axis(-92 * Deg, HalfDeg, MaxN) }
    \cup { Axis(s, (360 * Deg) \div k, k) : s \in {0, -180 * Deg}, k \in {4, 6} }

LatAxes ==
    { Axis(46 * Deg, -2 * Deg, MaxN), Axis(45 * Deg, -Deg, MaxN),
      Axis(26 * Deg, Deg, MaxN), Axis(34 * Deg, HalfDeg, MaxN),
      Axis(90 * Deg, -30 * Deg, 7), Axis(-90 * Deg, 30 * Deg, 7) }

\* longitude axes that are not equally spaced as the caller gives them: the
\* rotations of a global axis, and an axis of two parts with a gap
SplitLonAxes ==
    { FlipLon(Axis(s, 60 * Deg, 6), k) : s \in {0, -180 * Deg}, k \in 1..5 }
    \cup { << 0, 60 * Deg, 120 * Deg, 240 * Deg, 300 * Deg >> }

\* longitude axes that end on 180E and on 360E
ExtentLonAxes == { Axis(-120 * Deg, 60 * Deg, 6), Axis(60 * Deg, 60 * Deg, 6) }

\* the axes the overlapping regions are masked on
OverlapLonAxes == { Axis(-102 * Deg, 2 * Deg, MaxN), Axis(-92 * Deg, Deg, MaxN) }

OverlapLatAxes == { Axis(46 * Deg, -2 * Deg, MaxN), Axis(26 * Deg, Deg, MaxN) }

\* the coarse axes of the fractional masks: equally spaced ones of FracN
\* cells, and ones that are not equally spaced
FracLonAxes ==
    { Axis(-110 * Deg, 20 * Deg, FracN), Axis(-100 * Deg, 20 * Deg, FracN),
      Axis(-104 * Deg, 20 * Deg, FracN),
      << -110 * Deg, -90 * Deg, -60 * Deg >> }

FracLatAxes ==
    { Axis(20 * Deg, 16 * Deg, FracN), Axis(25 * Deg + 2 * Offset, 16 * Deg, FracN),
      << 20 * Deg, 36 * Deg, 60 * Deg >> }

\* ---------------------------------------------------------------- state

VARIABLES
    regions,    \* the region collection the mask is asked of
    lon,        \* the caller's longitudes (1-D axis)
    lat,        \* the caller's latitudes (1-D axis)
    method,     \* "auto", or the backend the caller forces
    wrap_lon,   \* "auto" (None) or "false"
    overlap,    \* the overlap flag of the collection: "none" (unset), "true", "false"
    fractional, \* the call is one of mask_3D_frac_approx
    shape,      \* the shapes of lon and lat as given, and whether they are a point set
    pc,         \* position in the mask call
    lonw,       \* the longitudes the backends see
    backend,    \* the backend that rasterized
    mask,       \* the boolean layers, one per region
    mask2D,     \* the 2D mask
    drop,       \* the drop argument of the 3D mask
    mask3D,     \* the 3D mask: a sequence of layers with their region number
    maskFrac,   \* the fractional mask: layers of sub-point counts
    coords,     \* the coordinates attached to the returned mask: << lon, lat >>
    finished    \* the regions whose membership tests are done, in order of completion

vars ==
    << regions, lon, lat, method, wrap_lon, overlap, fractional, shape, pc, lonw,
       backend, mask, mask2D, drop, mask3D, maskFrac, coords, finished >>

inputs == << regions, lon, lat, method, wrap_lon, overlap, fractional, shape >>

outputs == << mask2D, drop, mask3D, maskFrac, coords >>

\* a mask call on regions that do not overlap, with the default overlap
InitMask ==
    /\ regions \in Collections
    /\ lon \in LonAxes
    /\ lat \in LatAxes
    /\ method \in {"auto", "rasterize", "shapely"}
    /\ wrap_lon \in {"auto", "false"}
    /\ overlap = "none"
    /\ fractional = FALSE

\* a mask call on regions that may overlap, with every overlap setting
InitOverlap ==
    /\ regions \in OverlapCollections
    /\ lon \in OverlapLonAxes
    /\ lat \in OverlapLatAxes
    /\ method \in {"auto", "rasterize", "shapely"}
    /\ wrap_lon \in {"auto", "false"}
    /\ overlap \in {"none", "true", "false"}
    /\ fractional = FALSE

\* a mask call on regions with a 45 degree border that holds grid points
InitDiagonal ==
    /\ regions \in {region_diagonal, region_antidiagonal}
    /\ lon \in {Axis(-102 * Deg, 2 * Deg, MaxN), Axis(-102 * Deg, Deg, MaxN)}
    /\ lat \in {Axis(46 * Deg, -2 * Deg, MaxN), Axis(26 * Deg, 2 * Deg, MaxN)}
    /\ method \in {"auto", "rasterize", "shapely"}
    /\ wrap_lon \in {"auto", "false"}
    /\ overlap = "none"
    /\ fractional = FALSE

\* a mask call on longitudes whose extent ends on the upper end of a range
InitExtent ==
    /\ regions \in {region_global_2, region_global_2_360}
    /\ lon \in ExtentLonAxes
    /\ lat = Axis(75 * Deg, -30 * Deg, 6)
    /\ method \in {"auto", "rasterize", "shapely"}
    /\ wrap_lon \in {"auto", "false"}
    /\ overlap = "none"
    /\ fractional = FALSE

\* a mask call on a longitude axis that has a jump
InitSplit ==
    /\ regions \in {region_global_2_360, region_global_2}
    /\ lon \in SplitLonAxes
    /\ lat = Axis(90 * Deg, -30 * Deg, 7)
    /\ method \in {"auto", "rasterize", "shapely"}
    /\ wrap_lon \in {"auto", "false"}
    /\ overlap = "none"
    /\ fractional = FALSE

\* a call of mask_3D_frac_approx
InitFrac ==
    /\ regions \in {region, region_vh}
    /\ lon \in FracLonAxes
    /\ lat \in FracLatAxes
    /\ method = "auto"
    /\ wrap_lon = "auto"
    /\ overlap \in {"none", "false"}
    /\ fractional = TRUE

\* the calls of mask_3D_frac_approx of the accuracy example
InitFracExample ==
    /\ regions \in {region1, region2, region3, region_corner}
    /\ lon = Axis(-5 * Deg, 10 * Deg, FracN)
    /\ lat = Axis(-5 * Deg, 10 * Deg, FracN)
    /\ method = "auto"
    /\ wrap_lon = "auto"
    /\ overlap = "none"
    /\ fractional = TRUE

\* the shapes of two 1-D axes of a rectilinear grid
Rectilinear(lonAx, latAx) ==
    [lon |-> << Len(lonAx) >>, lat |-> << Len(latAx) >>, points |-> FALSE]

\* coordinates (flattened) of a shape that no mask can be computed for: a 1-D
\* point set of different lengths, different numbers of dimensions, 0-D and
\* 3-D coordinates, 2-D coordinates of different shape
WrongShapeCoords ==
    { [lon |-> Axis(-102 * Deg, 2 * Deg, 4), lat |-> Axis(46 * Deg, -2 * Deg, 3),
       shape |-> [lon |-> << 4 >>, lat |-> << 3 >>, points |-> TRUE]],
      [lon |-> Axis(-102 * Deg, 2 * Deg, 4), lat |-> Axis(46 * Deg, -2 * Deg, 4),
       shape |-> [lon |-> << 4 >>, lat |-> << 2, 2 >>, points |-> FALSE]],
      [lon |-> << -100 * Deg >>, lat |-> << 40 * Deg >>,
       shape |-> [lon |-> << >>, lat |-> << >>, points |-> FALSE]],
      [lon |-> Axis(-102 * Deg, 2 * Deg, 8), lat |-> Axis(46 * Deg, -2 * Deg, 8),
       shape |-> [lon |-> << 2, 2, 2 >>, lat |-> << 2, 2, 2 >>, points |-> FALSE]],
      [lon |-> Axis(-102 * Deg, 2 * Deg, 6), lat |-> Axis(46 * Deg, -2 * Deg, 6),
       shape |-> [lon |-> << 2, 3 >>, lat |-> << 3, 2 >>, points |-> FALSE]] }

\* a mask call with coordinates of a wrong shape
InitShape ==
    /\ regions = region
    /\ \E c \in WrongShapeCoords : lon = c.lon /\ lat = c.lat /\ shape = c.shape
    /\ method \in {"auto", "rasterize", "shapely"}
    /\ wrap_lon \in {"auto", "false"}
    /\ overlap = "none"
    /\ fractional \in BOOLEAN

Init ==
    /\ \/ /\ \/ InitMask \/ InitOverlap \/ InitDiagonal \/ InitExtent \/ InitSplit
             \/ InitFrac \/ InitFracExample
          /\ shape = Rectilinear(lon, lat)
       \/ InitShape
    /\ pc = "call"
    /\ lonw = << >>
    /\ backend = "none"
    /\ mask = << >>
    /\ mask2D = << >>
    /\ drop = TRUE
    /\ mask3D = << >>
    /\ maskFrac = << >>
    /\ coords = << >>
    /\ finished = << >>

\* the check of the coordinates that a mask call starts with
CheckShapeNdimOnly(shp) ==
    IF Len(shp.lon) # Len(shp.lat) THEN "errorShape" ELSE "ok"

CheckShape(shp) ==
    IF Len(shp.lon) # Len(shp.lat) THEN "errorShape"
    ELSE IF Len(shp.lon) \notin {1, 2} THEN "errorShape"
    ELSE IF Len(shp.lon) = 2 /\ shp.lon # shp.lat THEN "errorShape"
    ELSE IF shp.points /\ shp.lon # shp.lat THEN "errorShape"
    ELSE "ok"

\* ValueError: the coordinates have a wrong number of dimensions or shape
RaiseWrongShape ==
    /\ pc = "call"
    /\ CheckShape(shape) # "ok"
    /\ pc' = CheckShape(shape)
    /\ UNCHANGED << inputs, finished, lonw, backend, mask, outputs >>

\* wrap the longitudes into the range of the regions unless wrap_lon is False
Wrap ==
    /\ pc = "call"
    /\ CheckShape(shape) = "ok"
    /\ ~fractional
    /\ lonw' = IF wrap_lon = "false" THEN lon
               ELSE WrapAngle(lon, IsLon180(regions.polys))
    /\ pc' = "wrapped"
    /\ UNCHANGED << inputs, finished, backend, mask, outputs >>

\* method="rasterize" needs equally spaced coordinates
RaiseNotEquallySpaced ==
    /\ pc = "wrapped"
    /\ method = "rasterize"
    /\ DetermineMethod(lonw, lat) = "shapely"
    /\ pc' = "error"
    /\ UNCHANGED << inputs, finished, lonw, backend, mask, outputs >>

Rasterize ==
    /\ pc = "wrapped"
    /\ method \in {"auto", "rasterize"}
    /\ DetermineMethod(lonw, lat) = "rasterize"
    /\ mask' = MaskRasterize(regions.polys, lonw, lat)
    /\ backend' = "rasterize"
    /\ pc' = "masked"
    /\ UNCHANGED << inputs, finished, lonw, outputs >>

\* a longitude axis that is a rotation of an equally spaced one
RasterizeFlip ==
    /\ pc = "wrapped"
    /\ method \in {"auto", "rasterize"}
    /\ DetermineMethod(lonw, lat) = "rasterize_flip"
    /\ mask' = MaskRasterizeFlip(regions.polys, lonw, lat)
    /\ backend' = "rasterize"
    /\ pc' = "masked"
    /\ UNCHANGED << inputs, finished, lonw, outputs >>

\* a longitude axis of two equally spaced parts with a gap between them
RasterizeSplit ==
    /\ pc = "wrapped"
    /\ method \in {"auto", "rasterize"}
    /\ DetermineMethod(lonw, lat) = "rasterize_split"
    /\ mask' = MaskRasterizeSplit(regions.polys, lonw, lat)
    /\ backend' = "rasterize"
    /\ pc' = "masked"
    /\ UNCHANGED << inputs, finished, lonw, outputs >>

Shapely ==
    /\ pc = "wrapped"
    /\ \/ method = "shapely"
       \/ method = "auto" /\ DetermineMethod(lonw, lat) = "shapely"
    /\ mask' = MaskShapely(regions.polys, lonw, lat)
    /\ backend' = "shapely"
    /\ pc' = "masked"
    /\ UNCHANGED << inputs, finished, lonw, outputs >>

\* treat the points at -180E (0E) and -90N
Edgepoints ==
    /\ pc = "masked"
    /\ mask' = IF TreatEdgepoints(wrap_lon)
               THEN MaskEdgepointsShapely(mask, regions.polys, lonw, lat)
               ELSE mask
    /\ pc' = "treated"
    /\ UNCHANGED << inputs, finished, lonw, backend, outputs >>

\* Regions.mask on overlapping regions: overlap=True
Raise2DOverlapTrue ==
    /\ pc = "treated"
    /\ overlap = "true"
    /\ Check2D(overlap, mask, Index(lon, lat)) # "ok"
    /\ pc' = Check2D(overlap, mask, Index(lon, lat))
    /\ UNCHANGED << inputs, finished, lonw, backend, mask, outputs >>

\* Regions.mask with overlap unset: the regions are found to overlap
Raise2DFoundOverlap ==
    /\ pc = "treated"
    /\ overlap = "none"
    /\ Check2D(overlap, mask, Index(lon, lat)) # "ok"
    /\ pc' = Check2D(overlap, mask, Index(lon, lat))
    /\ UNCHANGED << inputs, finished, lonw, backend, mask, outputs >>

\* the coordinates the backends have seen: the offsets subtracted
MaskCoordsOffset(lonAx, latAx) ==
    << [ i \in DOMAIN lonAx |-> lonAx[i] - Offset ],
       [ j \in DOMAIN latAx |-> latAx[j] - Nudge ] >>

\* the coordinates of the returned mask are the caller's
MaskCoords(lonAx, latAx) == << lonAx, latAx >>

\* Regions.mask: the 2D mask
Mask2D ==
    /\ pc = "treated"
    /\ Check2D(overlap, mask, Index(lon, lat)) = "ok"
    /\ mask2D' = Compose2D(mask, regions.numbers, Index(lon, lat))
    /\ coords' = MaskCoords(lon, lat)
    /\ pc' = "done2D"
    /\ UNCHANGED << inputs, finished, lonw, backend, mask, drop, mask3D, maskFrac >>

\* Regions.mask_3D: the layers
Mask3D ==
    /\ pc = "treated"
    /\ \E d \in BOOLEAN :
         /\ drop' = d
         /\ mask3D' = Stack3D(Layers3D(mask, regions.numbers, Index(lon, lat), overlap),
                              regions.numbers, d)
    /\ coords' = MaskCoords(lon, lat)
    /\ pc' = "done3D"
    /\ UNCHANGED << inputs, finished, lonw, backend, mask, mask2D, maskFrac >>

\* flatten_3D_mask of the returned 3D mask
Flatten3D ==
    /\ pc = "done3D"
    /\ mask2D' = Flatten3DMask(mask3D, Index(lon, lat))
    /\ pc' = "flat"
    /\ UNCHANGED << inputs, finished, lonw, backend, mask, drop, mask3D, maskFrac, coords >>

\* mask_3D_frac_approx: the coordinates are not equally spaced
RaiseInvalidCoords ==
    /\ pc = "call"
    /\ CheckShape(shape) = "ok"
    /\ fractional
    /\ DetermineMethod(lon, lat) # "rasterize"
    /\ pc' = "errorCoords"
    /\ UNCHANGED << inputs, finished, lonw, backend, mask, outputs >>

\* mask_3D_frac_approx: the fractional mask
Mask3DFracApprox ==
    /\ pc = "call"
    /\ CheckShape(shape) = "ok"
    /\ fractional
    /\ DetermineMethod(lon, lat) = "rasterize"
    /\ \E d \in BOOLEAN :
         /\ drop' = d
         /\ maskFrac' = MaskFracApprox(regions.polys, regions.numbers, lon, lat,
                                       wrap_lon, overlap, d)
    /\ coords' = MaskCoords(lon, lat)
    /\ pc' = "doneFrac"
    /\ UNCHANGED << inputs, finished, lonw, backend, mask, mask2D, mask3D >>

Next ==
    \/ RaiseWrongShape
    \/ Wrap
    \/ RaiseNotEquallySpaced
    \/ Rasterize
    \/ RasterizeFlip
    \/ RasterizeSplit
    \/ Shapely
    \/ Edgepoints
    \/ Raise2DOverlapTrue
    \/ Raise2DFoundOverlap
    \/ Mask2D
    \/ Mask3D
    \/ Flatten3D
    \/ RaiseInvalidCoords
    \/ Mask3DFracApprox

Spec == Init /\ [][Next]_vars

\* ------------------------------------- the membership tests in any order

\* the membership tests are independent per region (and per point): a 2D
\* mask call on the overlapping collections with the regions tested in any
\* order
InitInterleaved ==
    /\ InitOverlap
    /\ shape = Rectilinear(lon, lat)
    /\ pc = "call"
    /\ lonw = << >>
    /\ backend = "none"
    /\ mask = << >>
    /\ mask2D = << >>
    /\ drop = TRUE
    /\ mask3D = << >>
    /\ maskFrac = << >>
    /\ coords = << >>
    /\ finished = << >>

\* the regions whose tests are done
Done(done) == { done[k] : k \in 1..Len(done) }

\* the test of one region that is not done yet, with the backend of the call
EvaluateRegion ==
    /\ pc = "wrapped"
    /\ method \in {"auto", "shapely"} \/ DetermineMethod(lonw, lat) # "shapely"
    /\ \E r \in DOMAIN regions.polys \ Done(finished) :
         LET meth == IF method = "shapely" THEN "shapely" ELSE DetermineMethod(lonw, lat)
             layer == MaskLayers(regions.polys, lonw, lat, "false", meth)[r]
         IN  /\ finished' = Append(finished, r)
             /\ mask' = [ k \in DOMAIN regions.polys |->
                            IF k = r THEN layer
                            ELSE IF k \in Done(finished) THEN mask[k] ELSE {} ]
             /\ backend' = IF meth = "shapely" THEN "shapely" ELSE "rasterize"
             /\ pc' = IF Done(finished') = DOMAIN regions.polys
                      THEN "masked" ELSE "wrapped"
    /\ UNCHANGED << inputs, lonw, outputs >>

\* the 2D mask burnt in the order the tests were completed
Compose2DAsCompleted(mask_, numbers, done, idx) == Burn2D(mask_, numbers, done, idx)

\* the 2D mask of the tested regions: burnt in ascending order of their
\* numbers, whatever the order the tests were completed in
Compose2DInterleaved(mask_, numbers, done, idx) ==
    Burn2D(mask_, numbers, Ascending(numbers, Done(done)), idx)

Mask2DInterleaved ==
    /\ pc = "treated"
    /\ Check2D(overlap, mask, Index(lon, lat)) = "ok"
    /\ mask2D' = Compose2DInterleaved(mask, regions.numbers, finished, Index(lon, lat))
    /\ coords' = MaskCoords(lon, lat)
    /\ pc' = "done2D"
    /\ UNCHANGED << inputs, finished, lonw, backend, mask, drop, mask3D, maskFrac >>

NextInterleaved ==
    \/ Wrap
    \/ EvaluateRegion
    \/ Edgepoints
    \/ Raise2DOverlapTrue
    \/ Raise2DFoundOverlap
    \/ Mask2DInterleaved

SpecInterleaved == InitInterleaved /\ [][NextInterleaved]_vars

\* ------------------------------------------------------------ properties

\* the mask call has rasterized and treated the seam and pole points
Treated == pc \in {"treated", "done2D", "done3D"}

OtherBackend == IF backend = "rasterize" THEN "shapely" ELSE "rasterize"

\* the grid point <<i, j>> as the backends see it
GridPt(ij) == Pt(lonw[ij[1]], lat[ij[2]])

Grid == Index(lon, lat)

\* the regions of these collections are plain rectangles
RectCollections ==
    { region, region_adjacent, region_stacked, region_global, region_global_180,
      region_global_2, region_global_2_360, region_global_ns, region_global_4 }

HoleCollections == { region_with_hole, region_two_holes }

XMin(ring) == Bounds(ring)[1]

YMin(ring) == Bounds(ring)[2]

XMax(ring) == Bounds(ring)[3]

YMax(ring) == Bounds(ring)[4]

C2_TopRightIncluded ==
    (Treated /\ regions \in RectCollections) =>
        \A r \in 1..Len(regions.polys) : \A ij \in Grid :
            LET ring == regions.polys[r].ext
                p == GridPt(ij)
                onTopRight == p[1] = XMax(ring) \/ p[2] = YMax(ring)
                onBottomLeft == p[1] = XMin(ring) \/ p[2] = YMin(ring)
            IN  (OnRing(p, ring) /\ p[1] # Seam(lonw) /\ p[2] # -90 * Deg) =>
                    /\ onBottomLeft => ij \notin mask[r]
                    /\ (onTopRight /\ ~onBottomLeft) => ij \in mask[r]
                    /\ pc = "done2D" =>
                          (mask2D[ij] = regions.numbers[r] <=> ij \in mask[r])

\* grid points on all four edges of the outline, with each backend
C2_Witness ==
    /\ pc = "done2D" /\ regions = region /\ backend = "shapely"
    /\ \E ij \in mask[1] : GridPt(ij)[1] = XMax(outline)
    /\ \E ij \in mask[1] : GridPt(ij)[2] = YMax(outline)
    /\ \E ij \in Grid \ mask[1] :
          GridPt(ij)[1] = XMin(outline) /\ YMin(outline) < GridPt(ij)[2]
          /\ GridPt(ij)[2] < YMax(outline)
    /\ \E ij \in Grid \ mask[1] :
          GridPt(ij)[2] = YMin(outline) /\ XMin(outline) < GridPt(ij)[1]
          /\ GridPt(ij)[1] < XMax(outline)

\* the cells of a half-open block of the rectangle
BlockMaxSide(ring) ==
    { ij \in Grid : /\ XMin(ring) < GridPt(ij)[1] /\ GridPt(ij)[1] <= XMax(ring)
                    /\ YMin(ring) < GridPt(ij)[2] /\ GridPt(ij)[2] <= YMax(ring) }

BlockMinSide(ring) ==
    { ij \in Grid : /\ XMin(ring) <= GridPt(ij)[1] /\ GridPt(ij)[1] < XMax(ring)
                    /\ YMin(ring) <= GridPt(ij)[2] /\ GridPt(ij)[2] < YMax(ring) }

RegionalRects == { region, region_adjacent, region_stacked }

\* C3 (as amended): the fast rasterizer assigns to a rectangle with vertices on
\* grid lines exactly the half-open block that is inclusive on the
\* maximum-coordinate side (top, right) and exclusive on the minimum-coordinate
\* side (bottom, left): no border row or column is missing or duplicated.
C3_HalfOpenBlockMaxSide ==
    (pc = "masked" /\ backend = "rasterize" /\ regions \in RegionalRects) =>
        \A r \in 1..Len(regions.polys) :
            mask[r] = BlockMaxSide(regions.polys[r].ext)

\* C3 (as claimed): the block is inclusive on the minimum-coordinate side and
\* exclusive on the maximum-coordinate side.
C3_HalfOpenBlockMinSide ==
    (pc = "masked" /\ backend = "rasterize" /\ regions \in RegionalRects) =>
        \A r \in 1..Len(regions.polys) :
            mask[r] = BlockMinSide(regions.polys[r].ext)

\* the rasterizer ran on a grid with points on the left and on the right edge
C3_Witness ==
    /\ pc = "masked" /\ backend = "rasterize" /\ regions = region
    /\ \E ij \in Grid : GridPt(ij)[1] = XMin(outline) /\ GridPt(ij)[2] = 36 * Deg
    /\ \E ij \in Grid : GridPt(ij)[1] = XMax(outline) /\ GridPt(ij)[2] = 36 * Deg
    /\ \E ij \in Grid : GridPt(ij)[2] = YMax(outline)
    /\ mask[1] # {}

AdjacentCollections ==
    { region_adjacent, region_stacked, region_global_2, region_global_2_360,
      region_global_ns }

\* the grid point lies on the border the two regions of the collection share
OnSharedEdge(p) ==
    OnRing(p, regions.polys[1].ext) /\ OnRing(p, regions.polys[2].ext)

\* the end of the shared border on the bottom (left) outline of both regions
OnMinSideOutline(p) ==
    \/ p[1] = Min2(XMin(regions.polys[1].ext), XMin(regions.polys[2].ext))
    \/ p[2] = Min2(YMin(regions.polys[1].ext), YMin(regions.polys[2].ext))

\* C4 (as claimed): every grid point on the border two adjacent regions share
\* is matched by exactly one of them, the one on the lower-coordinate side
\* (the first region of these collections: the left, or the lower one).
C4_SharedEdgeOneWinner ==
    (Treated /\ regions \in AdjacentCollections) =>
        \A ij \in Grid :
            OnSharedEdge(GridPt(ij)) => (ij \in mask[1] /\ ij \notin mask[2])

\* C4 (as amended): the same for every grid point on the shared border other
\* than its end on the bottom (left) outline of the two regions, which is on
\* the excluded side of both and is matched by neither.
C4_SharedEdgeOneWinnerInside ==
    (Treated /\ regions \in AdjacentCollections) =>
        \A ij \in Grid :
            LET p == GridPt(ij)
            IN  /\ (OnSharedEdge(p) /\ ~OnMinSideOutline(p)) =>
                       (ij \in mask[1] /\ ij \notin mask[2])
                /\ (OnSharedEdge(p) /\ OnMinSideOutline(p) /\ p[1] # Seam(lonw)) =>
                       (ij \notin mask[1] /\ ij \notin mask[2])
                /\ (pc = "done2D" /\ OnSharedEdge(p) /\ ~OnMinSideOutline(p)) =>
                       mask2D[ij] = regions.numbers[1]

\* grid points on a vertical shared border: inside it and at its lower end
C4_Witness ==
    /\ pc = "done2D" /\ regions = region_adjacent
    /\ \E ij \in mask[1] : OnSharedEdge(GridPt(ij)) /\ GridPt(ij)[2] = 36 * Deg
    /\ \E ij \in Grid \ (mask[1] \cup mask[2]) :
          OnSharedEdge(GridPt(ij)) /\ GridPt(ij)[2] = 28 * Deg

\* p is strictly on the left (right) of the directed edge e
LeftOf(p, e) ==
    (e[2][1] - e[1][1]) * (p[2] - e[1][2]) > (e[2][2] - e[1][2]) * (p[1] - e[1][1])

RightOf(p, e) ==
    (e[2][1] - e[1][1]) * (p[2] - e[1][2]) < (e[2][2] - e[1][2]) * (p[1] - e[1][1])

\* p is strictly inside a convex ring: on the same side of all its edges
InsideConvex(p, ring) ==
    \/ \A e \in Edges(ring) : LeftOf(p, e)
    \/ \A e \in Edges(ring) : RightOf(p, e)

OnNoRing(p, poly) == \A ring \in Rings(poly) : ~OnRing(p, ring)

InExteriorNotInHole(p, poly) ==
    /\ InsideConvex(p, poly.ext)
    /\ \A k \in 1..Len(poly.holes) : ~InsideConvex(p, poly.holes[k])

\* C5: for a polygon with holes, a grid point that lies on none of its rings
\* is a member iff it is inside the exterior ring and outside every hole, with
\* either backend, in the layers (3D) and in the 2D mask.
C5_HoleCorrectness ==
    (Treated /\ regions \in HoleCollections) =>
        \A ij \in Grid :
            OnNoRing(GridPt(ij), regions.polys[1]) =>
                /\ ij \in mask[1] <=> InExteriorNotInHole(GridPt(ij), regions.polys[1])
                /\ pc = "done2D" =>
                      (mask2D[ij] = regions.numbers[1]
                          <=> InExteriorNotInHole(GridPt(ij), regions.polys[1]))

\* a 2D mask of the region with two holes: a grid point inside each hole is
\* left out, one between the holes is a member
C5_Witness ==
    /\ pc = "done2D" /\ regions = region_two_holes
    /\ \A k \in 1..2 : \E ij \in Grid :
          /\ InsideConvex(GridPt(ij), regions.polys[1].holes[k])
          /\ mask2D[ij] = NaN
    /\ \E ij \in Grid : /\ OnNoRing(GridPt(ij), regions.polys[1])
                        /\ mask2D[ij] = 0

\* C6: a grid point on a hole's ring follows the inverse of the exterior edge
\* rule: on the hole's top and right edge (where a point of an exterior ring
\* is included) it is excluded, on the hole's bottom and left edge (where a
\* point of an exterior ring is excluded) it is included, with either backend.
C6_HoleEdgeInverse ==
    (Treated /\ regions \in HoleCollections) =>
        \A k \in 1..Len(regions.polys[1].holes) : \A ij \in Grid :
            LET h == regions.polys[1].holes[k]
                p == GridPt(ij)
            IN  OnRing(p, h) =>
                    (ij \in mask[1] <=> ~(XMin(h) < p[1] /\ YMin(h) < p[2]))

\* grid points on the right and on the left edge of the hole, the first left
\* out and the second a member
C6_Witness ==
    /\ Treated /\ regions = region_with_hole /\ backend = "rasterize"
    /\ \E ij \in Grid \ mask[1] :
          GridPt(ij)[1] = XMax(interior) /\ GridPt(ij)[2] = 36 * Deg
    /\ \E ij \in mask[1] :
          GridPt(ij)[1] = XMin(interior) /\ GridPt(ij)[2] = 36 * Deg

GlobalRegions == { region_global, region_global_180 }

\* C7: unless wrap_lon is False, a region that covers the whole globe is
\* assigned every grid point, those at the seam (-180E or 0E) and those at a
\* pole (-90N, 90N) included, in the layer and in the 2D mask.
C7_GlobalCoverage ==
    (Treated /\ wrap_lon # "false" /\ regions \in GlobalRegions) =>
        \A ij \in Grid :
            /\ ij \in mask[1]
            /\ pc = "done2D" => mask2D[ij] = regions.numbers[1]

\* a global grid with points at 0E, at -90N and at 90N, all assigned
C7_Witness ==
    /\ pc = "done2D" /\ wrap_lon = "auto" /\ regions = region_global
    /\ \E ij \in Grid : lon[ij[1]] = 0 /\ lat[ij[2]] = 30 * Deg /\ mask2D[ij] = 0
    /\ \E ij \in Grid : lon[ij[1]] = 90 * Deg /\ lat[ij[2]] = -90 * Deg /\ mask2D[ij] = 0
    /\ \E ij \in Grid : lon[ij[1]] = 0 /\ lat[ij[2]] = 90 * Deg /\ mask2D[ij] = 0

\* C8: with wrap_lon=False the longitudes are used as passed and the points at
\* the seam and at -90N are tested like any other point, by the edge rule
\* after the offset alone; for a region that covers the globe the grid points
\* on its western edge (-180E or 0E) and at -90N are assigned to no region.
C8_NoSpecialCasing ==
    (Treated /\ wrap_lon = "false") =>
        /\ lonw = lon
        /\ regions \in RectCollections =>
              \A r \in 1..Len(regions.polys) :
                  mask[r] = BlockMaxSide(regions.polys[r].ext)
        /\ regions \in GlobalRegions =>
              \A ij \in Grid :
                  (lon[ij[1]] = XMin(regions.polys[1].ext) \/ lat[ij[2]] = -90 * Deg) =>
                      /\ ij \notin mask[1]
                      /\ pc = "done2D" => mask2D[ij] = NaN

\* wrap_lon=False: the points at 0E and at -90N of a global grid are left out
C8_Witness ==
    /\ pc = "done2D" /\ wrap_lon = "false" /\ regions = region_global
    /\ \E ij \in Grid : lon[ij[1]] = 0 /\ lat[ij[2]] = 30 * Deg /\ mask2D[ij] = NaN
    /\ \E ij \in Grid : lon[ij[1]] = 90 * Deg /\ lat[ij[2]] = -90 * Deg /\ mask2D[ij] = NaN
    /\ \E ij \in Grid : lon[ij[1]] = 90 * Deg /\ lat[ij[2]] = 30 * Deg /\ mask2D[ij] = 0

\* the seam of the range the regions lie in
RegionSeam == IF IsLon180(regions.polys) THEN -180 * Deg ELSE 0

\* the edge rule with the seam taken as 180E (360E) and with -90N, and only
\* -90N, taken as just north of itself
SeamPoleRule(ring, x, y) ==
    LET xs == IF x = RegionSeam THEN x + 360 * Deg ELSE x
    IN  /\ XMin(ring) < xs /\ xs <= XMax(ring)
        /\ IF y = -90 * Deg THEN YMin(ring) <= y /\ y < YMax(ring)
           ELSE YMin(ring) < y /\ y <= YMax(ring)

\* the collections whose edges lie on whole degrees (region_global ends short
\* of 360E)
WholeDegreeCollections == RectCollections \ {region_global}

\* C9: with wrapping enabled a grid point at -180E (0E) belongs to the region
\* present at 180E (360E), not to the one whose edge lies at -180E (0E); a
\* grid point at -90N belongs to the region directly above it, and no other
\* grid point is shifted northwards (a point on a horizontal border still
\* belongs to the region below it).
C9_SeamAndPole ==
    (Treated /\ wrap_lon # "false" /\ regions \in WholeDegreeCollections) =>
        \A r \in 1..Len(regions.polys) : \A ij \in Grid :
            /\ ij \in mask[r] <=>
                  SeamPoleRule(regions.polys[r].ext, GridPt(ij)[1], GridPt(ij)[2])
            /\ pc = "done2D" => (mask2D[ij] = regions.numbers[r] <=> ij \in mask[r])

\* the four quadrants: the point at -180E, 30N is in NE (3), the point at
\* -90E, -90N in SW (0), the point at -180E, -90N in SE (1), and the point at
\* -90E, 0N on the border of SW and NW in SW (0)
C9_Witness ==
    /\ pc = "done2D" /\ wrap_lon = "auto" /\ regions = region_global_4
    /\ \E ij \in Grid : GridPt(ij) = Pt(-180 * Deg, 30 * Deg) /\ mask2D[ij] = 3
    /\ \E ij \in Grid : GridPt(ij) = Pt(-90 * Deg, -90 * Deg) /\ mask2D[ij] = 0
    /\ \E ij \in Grid : GridPt(ij) = Pt(-180 * Deg, -90 * Deg) /\ mask2D[ij] = 1
    /\ \E ij \in Grid : GridPt(ij) = Pt(-90 * Deg, 0) /\ mask2D[ij] = 0

\* the caller's longitudes expressed in [-180, 180) and in [0, 360)
To180(ax) == [ i \in 1..Len(ax) |-> ((ax[i] + 180 * Deg) % (360 * Deg)) - 180 * Deg ]

To360(ax) == [ i \in 1..Len(ax) |-> ax[i] % (360 * Deg) ]

\* C10: with automatic wrap detection the mask of the caller's longitudes, the
\* mask of the same longitudes expressed in [0, 360) and the mask of the same
\* longitudes expressed in [-180, 180) hold the same membership, point by
\* point, in the layers and in the 2D mask.
C10_WrapIdempotence ==
    (Treated /\ wrap_lon = "auto") =>
        LET m180 == MaskLayers(regions.polys, To180(lon), lat, "auto", "shapely")
            m360 == MaskLayers(regions.polys, To360(lon), lat, "auto", "shapely")
        IN  /\ mask = m180
            /\ mask = m360
            /\ pc = "done2D" => mask2D = Compose2D(m180, regions.numbers, Grid)

\* longitudes in [0, 360) and regions in [-180, 180]: a point at 270E is a
\* member of the region at -90E
C10_Witness ==
    /\ pc = "done2D" /\ wrap_lon = "auto" /\ regions = region_global_2
    /\ lon = To360(lon) /\ lon # To180(lon)
    /\ \E ij \in mask[1] : lon[ij[1]] = 270 * Deg

\* ------------------------------------------------- overlapping regions

\* the regions the grid point <<i, j>> is a member of
Matching(ij) == { r \in DOMAIN mask : ij \in mask[r] }

\* the highest number of the regions the grid point is a member of
HighestMatching(ij) == SetMax({ regions.numbers[r] : r \in Matching(ij) })

\* some grid point is a member of more than one region
SomeSharedPoint == \E ij \in Grid : Cardinality(Matching(ij)) > 1

\* a 2D mask was asked for, and the call has returned or raised
Asked2D == pc \in {"done2D", "errorUse3D"}

\* C11: with overlap=False the 2D mask holds, at every grid point that more
\* than one region matches, the number of the matching region with the highest
\* number; the call raises no error, in whatever order the polygons were given
C11_HighestNumberWins ==
    (overlap = "false" /\ Asked2D) =>
        /\ pc = "done2D"
        /\ \A ij \in Grid :
               Cardinality(Matching(ij)) > 1 => mask2D[ij] = HighestMatching(ij)

C11_Witness ==
    /\ overlap = "false"
    /\ pc = "done2D"
    /\ regions = region_hv
    /\ \E ij \in Grid : Matching(ij) = {1, 2} /\ mask2D[ij] = 2

C13_OverlapTrueNo2D ==
    (overlap = "true" /\ Asked2D) => pc = "errorUse3D" /\ mask2D = << >>

C13_Witness ==
    /\ overlap = "true"
    /\ pc = "errorUse3D"
    /\ regions = region_adjacent
    /\ \A ij \in Grid : Cardinality(Matching(ij)) <= 1
    /\ \E ij \in Grid : Matching(ij) # {}

\* the layer of the 3D mask with region number n; no grid point when the 3D
\* mask has no such layer
LayerOf(n) ==
    IF \E k \in DOMAIN mask3D : mask3D[k].region = n
    THEN mask3D[CHOOSE k \in DOMAIN mask3D : mask3D[k].region = n].layer
    ELSE {}

\* the 3D mask is True for every region at every grid point of the region
AllMatchingLayersTrue ==
    \A ij \in Grid : \A r \in Matching(ij) : ij \in LayerOf(regions.numbers[r])

AloneLayer(r) ==
    MaskLayers(<< regions.polys[r] >>, lon, lat, wrap_lon, backend)[1]

\* the grid points strictly inside two regions of the collection
SharedArea ==
    { ij \in Grid : \E r, q \in DOMAIN regions.polys :
        /\ r # q
        /\ InsideConvex(GridPt(ij), regions.polys[r].ext)
        /\ InsideConvex(GridPt(ij), regions.polys[q].ext) }

\* C15: with overlap=True the 3D mask is True, in the layer of each region, at
\* exactly the grid points of that region, whatever the other regions are: a
\* grid point of a shared area is True in the layers of all regions sharing it
C15_Overlap3DIndependent ==
    (overlap = "true" /\ pc = "done3D") =>
        /\ \A r \in DOMAIN regions.numbers :
               LayerOf(regions.numbers[r]) = AloneLayer(r)
        /\ \A ij \in SharedArea : \A r \in DOMAIN regions.polys :
               InsideConvex(GridPt(ij), regions.polys[r].ext)
                   => ij \in LayerOf(regions.numbers[r])

C15_Witness ==
    /\ overlap = "true"
    /\ pc = "done3D"
    /\ regions = region_hv
    /\ \E ij \in SharedArea : ij \in LayerOf(1) /\ ij \in LayerOf(2)

\* C16: with overlap=False a grid point of the area two polygons share is True
\* in the layer of the region with the higher number only: no grid point is
\* True in more than one layer of the 3D mask
C16_NoOverlap3DOneLayer ==
    (overlap = "false" /\ pc = "done3D") =>
        /\ \A ij \in Grid :
               Cardinality({ k \in DOMAIN mask3D : ij \in mask3D[k].layer }) <= 1
        /\ \A ij \in SharedArea : \A r \in DOMAIN regions.numbers :
               ij \in LayerOf(regions.numbers[r])
                   <=> regions.numbers[r] = HighestMatching(ij)

C16_Witness ==
    /\ overlap = "false"
    /\ pc = "done3D"
    /\ regions = region_vh
    /\ \E ij \in SharedArea : ij \in LayerOf(1) /\ ij \notin LayerOf(0)
    /\ LayerOf(0) # {}

\* the polygons and the numbers of a collection in the order the caller gave
\* them to Regions, or selected them in
Supplied(name) ==
    CASE name = "region_hv" ->
           [polys |-> << Polygon(coords_h, << >>), Polygon(coords_v, << >>) >>,
            numbers |-> << 2, 1 >>]
      [] name = "region_selected" ->
           [polys |-> << region_three.polys[3], region_three.polys[1] >>,
            numbers |-> << 2, 0 >>]

UnsortedCollections == {"region_hv", "region_selected"}

\* the layers of the regions in the order the caller gave the regions in
SuppliedLayers(name) ==
    Layers3D(MaskLayers(Supplied(name).polys, lon, lat, wrap_lon, backend),
             Supplied(name).numbers, Grid, overlap)

\* C17: the layers of a 3D mask are in ascending order of the region numbers,
\* in whatever order the regions were constructed or selected, and the layer
\* with region coordinate n holds the membership of the region numbered n
C17_LayersAscendingByNumber ==
    pc = "done3D" =>
        /\ \A k \in 1..(Len(mask3D) - 1) : mask3D[k].region < mask3D[k + 1].region
        /\ regions.name \in UnsortedCollections =>
               \A k \in DOMAIN mask3D :
                   \E g \in DOMAIN Supplied(regions.name).numbers :
                       /\ Supplied(regions.name).numbers[g] = mask3D[k].region
                       /\ SuppliedLayers(regions.name)[g] = mask3D[k].layer

C17_Witness ==
    /\ pc = "done3D"
    /\ regions.name = "region_hv"
    /\ Len(mask3D) = 2
    /\ mask3D[1].region = 1
    /\ mask3D[2].region = 2
    /\ mask3D[1].layer # mask3D[2].layer
    /\ mask3D[2].layer = SuppliedLayers("region_hv")[1]

\* the 3D mask of the same call with the other value of drop
OtherDrop ==
    Stack3D(Layers3D(mask, regions.numbers, Grid, overlap), regions.numbers, ~drop)

Mask3DDropped == IF drop THEN mask3D ELSE OtherDrop

Mask3DFull == IF drop THEN OtherDrop ELSE mask3D

RegionCoords(m3) == { m3[k].region : k \in DOMAIN m3 }

\* the numbers of the regions that have a grid point in the 3D mask
NumbersWithGridPoint ==
    { regions.numbers[r] : r \in { q \in DOMAIN regions.numbers :
        Layers3D(mask, regions.numbers, Grid, overlap)[q] # {} } }

C19_NumberOrNaN ==
    pc = "done2D" =>
        \A ij \in Grid :
            /\ mask2D[ij] = NaN <=> Matching(ij) = {}
            /\ mask2D[ij] # NaN =>
                   \E r \in Matching(ij) : mask2D[ij] = regions.numbers[r]

C19_Witness ==
    /\ pc = "done2D"
    /\ regions = region_nested
    /\ \E ij \in Grid : mask2D[ij] = NaN
    /\ \E ij \in Grid : mask2D[ij] = 5 /\ Matching(ij) = {1, 2}
    /\ \E ij \in Grid : mask2D[ij] = 5 /\ Matching(ij) = {2}

\* C20: mask_3D_frac_approx raises InvalidCoordsError and returns no mask
\* whenever the longitudes or the latitudes (of a right shape) are not equally
\* spaced
C20_FracNeedsEquallySpaced ==
    (fractional /\ pc \notin {"call", "errorShape"}
                /\ ~(EquallySpaced(lon) /\ EquallySpaced(lat))) =>
        pc = "errorCoords" /\ maskFrac = << >>

C20_Witness ==
    /\ fractional
    /\ pc = "errorCoords"
    /\ EquallySpaced(lon)
    /\ ~EquallySpaced(lat)
    /\ maskFrac = << >>

\* ------------------------------------------------- fractional overlap

\* the centre of sub-cell a (0 .. NSample - 1) of the cell with centre c and
\* width d
SubPoint(c, d, a) == c - d \div 2 + d \div (2 * NSample) + a * (d \div NSample)

\* region r is a member at the point (x, y) by the boolean 3D mask: the point
\* is in the polygon and, with overlap=False, in no region with a higher number
MemberAt(r, x, y) ==
    /\ Contains(regions.polys[r], ShapelyPoint(x, y))
    /\ overlap = "false" =>
          \A q \in DOMAIN regions.polys :
              regions.numbers[q] > regions.numbers[r]
                  => ~Contains(regions.polys[q], ShapelyPoint(x, y))

\* the number of the NSample x NSample centred sub-points of cell ij that are
\* members of region r
SubPointsIn(r, ij) ==
    Cardinality({ ab \in (0..(NSample - 1)) \X (0..(NSample - 1)) :
        MemberAt(r, SubPoint(lon[ij[1]], lon[2] - lon[1], ab[1]),
                    SubPoint(lat[ij[2]], lat[2] - lat[1], ab[2])) })

\* the index of the region with number n
RegionOf(n) == CHOOSE r \in DOMAIN regions.numbers : regions.numbers[r] = n

\* C21: each value of the fractional mask is the number of the N x N centred
\* sub-points of the grid cell that are members of the region, over N * N (the
\* mask holds the count): a multiple of 1 / N^2 in [0, 1], 9 of 100 giving 0.09
C21_FracIsSubPointShare ==
    pc = "doneFrac" =>
        \A k \in DOMAIN maskFrac : \A ij \in Grid :
            /\ maskFrac[k].layer[ij] = SubPointsIn(RegionOf(maskFrac[k].region), ij)
            /\ maskFrac[k].layer[ij] \in 0..(NSample * NSample)

C21_Witness ==
    /\ pc = "doneFrac"
    /\ regions = region
    /\ NSample = 10
    /\ maskFrac[1].layer[<< 1, 1 >>] = 9
    /\ maskFrac[1].layer[<< 2, 2 >>] = 49

\* the collections of one axis-aligned box that fractional masks are asked of
BoxRegions == {region, region2, region3, region_corner}

\* the length the interval [a0, a1] shares with the cell of centre c, width d
Shared(a0, a1, c, d) ==
    Max2(0, Min2(a1, c + d \div 2) - Max2(a0, c - d \div 2))

\* the area of a grid cell, and the area of it the box of the collection covers
CellArea == (lon[2] - lon[1]) * (lat[2] - lat[1])

BoxAreaIn(ij) ==
    LET ring == regions.polys[1].ext
    IN  Shared(XMin(ring), XMax(ring), lon[ij[1]], lon[2] - lon[1])
          * Shared(YMin(ring), YMax(ring), lat[ij[2]], lat[2] - lat[1])

\* the box covers the cell over its full width or its full height, or not at all
CutOneWay(ij) ==
    LET ring == regions.polys[1].ext
    IN  \/ Shared(XMin(ring), XMax(ring), lon[ij[1]], lon[2] - lon[1]) = lon[2] - lon[1]
        \/ Shared(YMin(ring), YMax(ring), lat[ij[2]], lat[2] - lat[1]) = lat[2] - lat[1]
        \/ BoxAreaIn(ij) = 0

Abs(a) == IF a < 0 THEN -a ELSE a

\* the value of the fractional mask at cell ij is within 1 / parts of the share
\* of the cell the box covers
BoxWithin(ij, parts) ==
    Abs(maskFrac[1].layer[ij] * CellArea - NSample * NSample * BoxAreaIn(ij)) * parts
        <= NSample * NSample * CellArea

\* the cell [0, 10] x [0, 10] of the accuracy example
ExampleCell == << 2, 2 >>

\* the covered share of the example cell in percent, as documented
Expected ==
    [ r \in {"region1", "region2", "region3"} |->
        CASE r = "region1" -> 50 [] r = "region2" -> 75 [] r = "region3" -> 32 ]

\* the documented cases are within 0.05 of the exact share
ExampleWithin ==
    regions.name \in DOMAIN Expected =>
        Abs(maskFrac[1].layer[ExampleCell] * 100
              - Expected[regions.name] * NSample * NSample) <= 5 * NSample * NSample

\* C22 (as stated): with N = 10 the fractional mask is within 0.05 of the exact
\* covered share of a cell for simple shapes (triangle 0.50, box 0.75, box
\* 0.32, any box)
C22_FracWithin5Percent ==
    (pc = "doneFrac" /\ ~drop /\ overlap = "none") =>
        /\ ExampleWithin
        /\ regions \in BoxRegions => \A ij \in Grid : BoxWithin(ij, 20)

\* C22 (amended): with N = 10 the fractional mask is within 0.05 of the exact
\* covered share for the documented cases and for every cell a box covers
\* over its full width or height (a half cell gives 0.45 to 0.55); a cell a
\* corner of the box lies in is within 0.10
C22_FracWithin5PercentOneWay ==
    (pc = "doneFrac" /\ ~drop /\ overlap = "none") =>
        /\ ExampleWithin
        /\ regions \in BoxRegions =>
              \A ij \in Grid :
                  /\ CutOneWay(ij) => BoxWithin(ij, 20)
                  /\ BoxWithin(ij, 10)
                  /\ 2 * BoxAreaIn(ij) = CellArea =>
                        maskFrac[1].layer[ij] \in 45..55

C22_Witness ==
    /\ pc = "doneFrac" /\ ~drop
    /\ regions = region1
    /\ maskFrac[1].layer[ExampleCell] = 45

\* ------------------------------------------------------------------- C23

\* the places k where the axis is a strictly increasing equally spaced one
\* whose first k elements were moved behind the others
RotationSplits(ax) ==
    { k \in 1..(Len(ax) - 1) :
        /\ ax[k + 1] < ax[k]
        /\ EquallySpaced(FlipLon(ax, k))
        /\ FlipLon(ax, k)[2] > FlipLon(ax, k)[1] }

\* the split at k is at neither end of the axis and not in its middle
ProperSplit(k, n) == k \notin {1, n - 1} /\ 2 * k # n

\* C23: for a longitude axis that is a rotation of a strictly increasing
\* equally spaced one, split once and not in the middle, the fast path is
\* used, column i of the mask holds the membership of lon[i] as the general
\* point-in-polygon test gives it, and the columns the splitter reads are
\* those of the axis put back in increasing order
C23_SplitKeepsCallerOrder ==
    \A k \in RotationSplits(lonw) :
        ( /\ Treated
          /\ ProperSplit(k, Len(lonw))
          /\ EquallySpaced(lat)
          /\ method \in {"auto", "rasterize"} )
        => /\ backend = "rasterize"
           /\ mask = MaskLayers(regions.polys, lon, lat, wrap_lon, "shapely")
           /\ EquallySpaced(FlipLon(lonw, FindSplitpoint(lonw)))
           /\ \A i \in DOMAIN lonw :
                 FlipLon(lonw, FindSplitpoint(lonw))
                     [FlippedColumn(i, FindSplitpoint(lonw), Len(lonw))] = lonw[i]

\* the axis 240, 300, 0, 60, 120, 180 is masked by the fast path: the region
\* from 0E to 180E holds the column of 60E and not that of 240E
C23_Witness ==
    /\ Treated
    /\ regions = region_global_2_360
    /\ lonw = FlipLon(Axis(0, 60 * Deg, 6), 4)
    /\ RotationSplits(lonw) = {2}
    /\ method = "auto"
    /\ backend = "rasterize"
    /\ << 4, 4 >> \in mask[1] /\ << 1, 4 >> \notin mask[1]
    /\ << 1, 4 >> \in mask[2]

\* ------------------------------------------------------------------- C25

\* the split at k is at one of the ends of the axis
EndSplit(k, n) == k \in {1, n - 1}

\* the split at k is in the middle of the axis
MiddleSplit(k, n) == 2 * k = n /\ ~EndSplit(k, n)

\* a call with method="auto" on a rotated equally spaced longitude axis
AutoOnRotation(k) ==
    /\ k \in RotationSplits(lonw)
    /\ EquallySpaced(lat)
    /\ method = "auto"

\* C25 as stated: a rotated equally spaced axis whose split point is in the
\* middle or at either end is masked by the general point-in-polygon path,
\* and no error is raised
C25_DegenerateSplitFallsBack ==
    \A k \in 1..(Len(lonw) - 1) :
        ( /\ AutoOnRotation(k)
          /\ EndSplit(k, Len(lonw)) \/ MiddleSplit(k, Len(lonw)) )
        => /\ pc # "error"
           /\ Treated => backend = "shapely"

\* C25: a rotated equally spaced axis whose split point is at either end is
\* masked by the general point-in-polygon path; one whose split point is in
\* the middle is split like any other and masked by the fast path; in both
\* cases no error is raised and the mask is the point-in-polygon result
C25_EndSplitFallsBack ==
    \A k \in 1..(Len(lonw) - 1) :
        AutoOnRotation(k)
        => /\ pc # "error"
           /\ Treated =>
                /\ EndSplit(k, Len(lonw)) => backend = "shapely"
                /\ MiddleSplit(k, Len(lonw)) => backend = "rasterize"
                /\ mask = MaskLayers(regions.polys, lon, lat, wrap_lon, "shapely")

\* the axis 300, 0, 60, 120, 180, 240 (split at the first end) went through
\* the point-in-polygon path
C25_Witness ==
    /\ Treated
    /\ regions = region_global_2_360
    /\ lonw = FlipLon(Axis(0, 60 * Deg, 6), 5)
    /\ AutoOnRotation(1)
    /\ backend = "shapely"
    /\ << 3, 4 >> \in mask[1] /\ << 1, 4 >> \in mask[2]

\* the axis 180, 240, 300, 0, 60, 120 (split in the middle) went through the
\* fast path
C25_MiddleSplitRasterized ==
    /\ Treated
    /\ lonw = FlipLon(Axis(0, 60 * Deg, 6), 3)
    /\ AutoOnRotation(3)
    /\ backend = "rasterize"

\* ------------------------------------------------------------------- C24

\* lon and lat cannot be the coordinates of a grid or of a point set
WrongShape ==
    \/ Len(shape.lon) # Len(shape.lat)
    \/ Len(shape.lon) \notin {1, 2}
    \/ Len(shape.lon) = 2 /\ shape.lon # shape.lat
    \/ shape.points /\ shape.lon # shape.lat

\* nothing of a mask has been computed
NothingComputed ==
    /\ lonw = << >> /\ backend = "none" /\ mask = << >>
    /\ mask2D = << >> /\ mask3D = << >> /\ maskFrac = << >>
    /\ coords = << >>

\* C24: coordinates of mismatched lengths (1-D point set), of a wrong number
\* of dimensions, or 2-D of different shape raise the error at the start of
\* the call: the call is either about to raise it or has raised it, nothing
\* has been computed and no mask is returned
C24_WrongShapeRaisesFirst ==
    WrongShape
    => /\ pc \in {"call", "errorShape"}
       /\ pc = "call" => ENABLED RaiseWrongShape
       /\ NothingComputed

\* the call with 2-D coordinates of the shapes (2, 3) and (3, 2) has raised
C24_Witness ==
    /\ pc = "errorShape"
    /\ shape.lon = << 2, 3 >> /\ shape.lat = << 3, 2 >>
    /\ NothingComputed

\* ------------------------------------------------------------------- C26

DiagonalCollections == { region_diagonal, region_antidiagonal }

\* e is an edge at 45 degrees
Diagonal(e) ==
    /\ e[1][1] # e[2][1]
    /\ Abs(e[2][1] - e[1][1]) = Abs(e[2][2] - e[1][2])

\* p lies on an edge at 45 degrees of one of the regions
OnDiagonalEdge(p) ==
    \E r \in DOMAIN regions.polys :
        \E e \in Edges(regions.polys[r].ext) : Diagonal(e) /\ OnSegment(p, e)

\* the membership the backend that was not used gives the grid point
OtherMember(r, ij) ==
    IF backend = "rasterize"
    THEN Contains(regions.polys[r], ShapelyPoint(lonw[ij[1]], lat[ij[2]]))
    ELSE Burnt(regions.polys[r], RasterPoint(lonw[ij[1]], lat[ij[2]]))

\* the two backends give the grid points on the 45 degree edges the same
\* membership
DiagonalBackendsAgree ==
    \A ij \in Grid :
        OnDiagonalEdge(GridPt(ij)) =>
            \A r \in DOMAIN regions.polys : ij \in mask[r] <=> OtherMember(r, ij)

RegionsIn180 ==
    \A r \in DOMAIN regions.polys :
        \A k \in DOMAIN regions.polys[r].ext : regions.polys[r].ext[k][1] <= 180 * Deg

\* the axis expressed in the range of the regions
InRegionRange(ax) == IF RegionsIn180 THEN To180(ax) ELSE To360(ax)

\* C27: with wrap_lon on automatic the longitudes are wrapped into the range
\* the regions alone determine: the caller's axis and every other axis,
\* whatever its extent, are expressed in [-180, 180) when no region reaches
\* beyond 180E and in [0, 360) otherwise
C27_WrapFromRegionsOnly ==
    (pc \notin {"call", "errorShape"} /\ ~fractional /\ wrap_lon = "auto") =>
        /\ lonw = InRegionRange(lon)
        /\ \A ax \in ExtentLonAxes \cup SplitLonAxes :
              WrapAngle(ax, IsLon180(regions.polys)) = InRegionRange(ax)

\* the axis -120, ..., 180 does not leave [-180, 180], and its point at 180E
\* is still wrapped to -180E for regions in [-180, 180]
C27_Witness ==
    /\ pc = "wrapped" /\ wrap_lon = "auto"
    /\ regions = region_global_2
    /\ lon = Axis(-120 * Deg, 60 * Deg, 6)
    /\ lonw[6] = -180 * Deg

\* ------------------------------------------------------------------- C28

\* a mask has been returned
Returned == pc \in {"done2D", "done3D", "doneFrac"}

\* C28: the coordinates attached to a returned mask are the caller's lon and
\* lat, value by value and in the caller's order, and no step of a mask call
\* changes the caller's coordinates, the regions or any other input
C28_CoordsAreCallers ==
    /\ [](Returned => coords = << lon, lat >>)
    /\ [][inputs' = inputs]_vars

\* a mask on wrapped and rearranged longitudes carries the caller's
\* longitudes
C28_Witness ==
    /\ pc = "done2D"
    /\ backend = "rasterize"
    /\ lonw # lon /\ ~EquallySpaced(lonw)
    /\ coords = << lon, lat >>

\* ------------------------------------------------------------------- C30

\* the 3D mask of the call with every layer kept (drop=False)
Full3D ==
    Stack3D(Layers3D(mask, regions.numbers, Grid, overlap), regions.numbers, FALSE)

\* the 2D mask holds the number of region r exactly where layer r of the 3D
\* mask is True, and the sentinel exactly where every layer is False
Matches3D(m2, m3) ==
    \A ij \in Grid :
        /\ \A k \in 1..Len(m3) : m2[ij] = m3[k].region <=> ij \in m3[k].layer
        /\ m2[ij] = NaN <=> \A k \in 1..Len(m3) : ij \notin m3[k].layer

\* C30: for regions that do not overlap on the grid, the 2D mask holds number
\* R at a grid point exactly where layer R of the 3D mask (drop=False) is
\* True and the sentinel exactly where every layer is False, and the
\* flattened 3D mask is the 2D mask
C30_FlatteningGives2D ==
    ~SomeSharedPoint =>
        /\ pc = "done2D" =>
              /\ Matches3D(mask2D, Full3D)
              /\ Flatten3DMask(Full3D, Grid) = mask2D
        /\ pc = "flat" =>
              /\ mask2D = Compose2D(mask, regions.numbers, Grid)
              /\ ~drop => Matches3D(mask2D, mask3D)

\* the flattened 3D mask (drop=False) of two adjacent regions holds both
\* numbers and the sentinel
C30_Witness ==
    /\ pc = "flat" /\ ~drop
    /\ regions = region_adjacent
    /\ ~SomeSharedPoint
    /\ \E ij \in Grid : mask2D[ij] = 0 /\ ij \in mask3D[1].layer
    /\ \E ij \in Grid : mask2D[ij] = 1 /\ ij \in mask3D[2].layer
    /\ \E ij \in Grid : mask2D[ij] = NaN

\* ------------------------------------------------------------------- C29

\* the 2D mask of the regions iterated one after the other in ascending order
\* of their numbers
Sequential2D == Compose2D(mask, regions.numbers, Grid)

====
